---- MODULE Spec2Model ----
(***************************************************************************)
(* Model of constructions/common/random.go: the seed-keyed RandomSource    *)
(* with its subkey derivation, AES-CTR keystream, the cached Shuffle and   *)
(* Matrix generators and the Dirichlet / Monotone integer samplers.        *)
(*                                                                         *)
(* Bytes are integers 0..255, byte strings are sequences of bytes.  The    *)
(* AES block function of crypto/aes is abstracted as a keyed permutation   *)
(* of 16-byte blocks; its length checks (key size, full input block, IV    *)
(* length of the CTR mode) are modelled exactly.                           *)
(***************************************************************************)
EXTENDS Integers, Sequences, FiniteSets, TLC

VARIABLES Name, Seed, encodingCache, matrixCache, call, last, callers, copy

vars == <<Name, Seed, encodingCache, matrixCache, call, last, callers, copy>>

(***************************************************************************)
(* Bounds of the model.                                                    *)
(***************************************************************************)
\* attempts of a rejection loop (Dirichlet, GenerateRandom) that are explored
MaxAttempts == 3
\* largest length of a Dirichlet / Monotone sequence
MaxLen == 3
\* largest target sum of a Dirichlet / Monotone sequence
MaxSum == 4
\* largest matrix dimension requested
MaxSize == 2
\* the small weight bytes 0..MaxLowByte are drawn next to the large ones
MaxLowByte == 3

(***************************************************************************)
(* Program constants.                                                      *)
(***************************************************************************)
\* aes.BlockSize, also the length of subKey and of the cache keys
BlockSize == 16
\* number of values of a byte
ByteRange == 256

(***************************************************************************)
(* Byte strings.                                                           *)
(***************************************************************************)
Zeros(n) == [i \in 1..n |-> 0]

Min(a, b) == IF a < b THEN a ELSE b

RECURSIVE XorByte(_, _)
XorByte(a, b) ==
    IF a = 0 /\ b = 0 THEN 0
    ELSE (((a % 2) + (b % 2)) % 2) + 2 * XorByte(a \div 2, b \div 2)

\* the sum of a sequence of integers, by halves
RECURSIVE SumSeq(_)
SumSeq(s) ==
    IF Len(s) = 0 THEN 0
    ELSE IF Len(s) = 1 THEN s[1]
    ELSE SumSeq(SubSeq(s, 1, Len(s) \div 2))
         + SumSeq(SubSeq(s, (Len(s) \div 2) + 1, Len(s)))

\* key := [16]byte{}; copy(key[:], label)
CacheKey(label) ==
    [i \in 1..BlockSize |-> IF i <= Len(label) THEN label[i] ELSE 0]

(***************************************************************************)
(* crypto/aes and crypto/cipher as used by subKey and Stream.              *)
(***************************************************************************)
\* aes.NewCipher returns (nil, KeySizeError) unless the key has 16, 24 or 32 bytes
NewCipherOk(key) == Len(key) \in {16, 24, 32}

\* c.Encrypt(dst, src) on the first block of src: a permutation of the
\* 16-byte blocks for every key, every output byte depending on the key, on
\* its input byte and on the last input byte (the one a counter changes).
Encrypt(key, src) ==
    LET mix == [i \in 1..BlockSize |->
                   src[i] + key[((i - 1) % Len(key)) + 1] + i * Len(key)
                   + (IF i < BlockSize THEN 3 * src[BlockSize] ELSE 0)]
    IN  SubSeq([i \in 1..BlockSize |-> mix[i] % ByteRange], 1, BlockSize)

\* the counter block of cipher.NewCTR after n increments (big-endian, wrapping)
RECURSIVE AddCtr(_, _, _)
AddCtr(iv, i, n) ==
    IF i = 0 \/ n = 0 THEN iv
    ELSE LET t == iv[i] + n
         IN  AddCtr([iv EXCEPT ![i] = t % ByteRange], i - 1, t \div ByteRange)

(***************************************************************************)
(* subKey and Stream.                                                      *)
(***************************************************************************)
\* for i, c := range []byte(rs.Name) { subKey[i] ^= c }
XorName(block, name) ==
    [i \in 1..BlockSize |->
        IF i <= Len(name) THEN XorByte(block[i], name[i]) ELSE block[i]]

\* The outcome of rs.subKey(label): "ok", or the run-time panic that ends it.
subKeyOutcome(name, seed, label) ==
    IF ~NewCipherOk(seed) THEN "panic: nil pointer dereference"
    ELSE IF Len(label) < BlockSize THEN "panic: crypto/aes: input not full block"
    ELSE IF Len(name) > BlockSize THEN "panic: index out of range"
    ELSE "ok"

subKey(name, seed, label) ==
    Encrypt(seed, XorName(Encrypt(seed, label), name))

\* The outcome of rs.Stream(label): subKey's, then cipher.NewCTR's IV check.
StreamOutcome(name, seed, label) ==
    IF subKeyOutcome(name, seed, label) # "ok" THEN subKeyOutcome(name, seed, label)
    ELSE IF Len(label) # BlockSize
         THEN "panic: cipher.NewCTR: IV length must equal block size"
    ELSE "ok"

\* the first n blocks of the stream: the AES-CTR encryption of zero bytes,
\* block b being the encryption of the counter block label + b
RECURSIVE KeyStream(_, _, _, _)
KeyStream(name, seed, label, n) ==
    IF n = 0 THEN <<>>
    ELSE KeyStream(name, seed, label, n - 1)
         \o Encrypt(subKey(name, seed, label), AddCtr(label, BlockSize, n - 1))

\* s.Read(buff) with len(buff) = n on a stream that has delivered p bytes
StreamRead(name, seed, label, p, n) ==
    SubSeq(KeyStream(name, seed, label, (p + n + BlockSize - 1) \div BlockSize),
           p + 1, p + n)

(***************************************************************************)
(* encoding.GenerateShuffle and matrix.GenerateRandom (package primitives). *)
(***************************************************************************)
RECURSIVE Pow2(_)
Pow2(n) == IF n = 0 THEN 1 ELSE 2 * Pow2(n - 1)

\* Fisher-Yates over the 16 positions, one stream byte per position: the
\* permutation after the swaps of the positions BlockSize, ..., i
RECURSIVE FisherYates(_, _)
FisherYates(bytes, i) ==
    IF i > BlockSize THEN [k \in 1..BlockSize |-> k - 1]
    ELSE LET perm == FisherYates(bytes, i + 1)
             j == (bytes[BlockSize + 1 - i] % i) + 1
         IN  [perm EXCEPT ![i] = perm[j], ![j] = perm[i]]

\* a permutation of 0..15 as the sequence of its 16 images
GenerateShuffle(name, seed, label) ==
    FisherYates(StreamRead(name, seed, label, 0, BlockSize), 2)

IsPermutation(p) ==
    /\ DOMAIN p = 1..BlockSize
    /\ {p[i] : i \in 1..BlockSize} = 0..(BlockSize - 1)

Bit(x, c) == (x \div Pow2(c)) % 2

\* Gaussian elimination over GF(2) on rows given as bit masks: every one of
\* the columns c..size-1 has a pivot among the rows.
RECURSIVE HasPivots(_, _, _)
HasPivots(rows, c, size) ==
    IF c = size THEN TRUE
    ELSE LET cand == {i \in 1..Len(rows) : Bit(rows[i], c) = 1}
         IN  IF cand = {} THEN FALSE
             ELSE LET p == CHOOSE i \in cand : \A j \in cand : i <= j
                      rest == [k \in 1..(Len(rows) - 1) |->
                                 LET r == rows[IF k < p THEN k ELSE k + 1]
                                 IN  IF Bit(r, c) = 1 THEN XorByte(r, rows[p]) ELSE r]
                  IN  HasPivots(rest, c + 1, size)

\* a matrix is the sequence of its rows, each row a bit mask below 2^size
Dim(m) == Len(m)

Invertible(m) == HasPivots(m, 0, Dim(m))

\* the candidate of attempt a: one stream byte per row, its low size bits
TrueRandom(name, seed, label, size, a) ==
    LET bytes == StreamRead(name, seed, label, a * size, size)
    IN  [i \in 1..size |-> bytes[i] % Pow2(size)]

\* rejection sampling until invertible; after MaxAttempts rejected candidates
\* the loop is still running and nothing is returned
RECURSIVE GenerateRandomFrom(_, _, _, _, _)
GenerateRandomFrom(name, seed, label, size, a) ==
    IF a >= MaxAttempts THEN [done |-> FALSE, m |-> <<>>]
    ELSE IF Invertible(TrueRandom(name, seed, label, size, a))
         THEN [done |-> TRUE, m |-> TrueRandom(name, seed, label, size, a)]
    ELSE GenerateRandomFrom(name, seed, label, size, a + 1)

GenerateRandom(name, seed, label, size) ==
    GenerateRandomFrom(name, seed, label, size, 0)

(***************************************************************************)
(* Inputs.                                                                 *)
(***************************************************************************)
\* a label of exactly 16 bytes
Label16 == [i \in 1..BlockSize |-> 16 + i]
\* two longer labels with the 16-byte prefix Label16 and different suffixes
Label17a == Append(Label16, 7)
Label17b == Append(Label16, 9)
\* the 2-byte label "m1" and the same label zero-padded to 16 bytes
LabelM1 == <<109, 49>>
LabelM1Pad == CacheKey(LabelM1)

Labels == {Label16, Label17a, Label17b, LabelM1, LabelM1Pad}

\* "test", a name of exactly 16 bytes and a name of 17 bytes with that prefix
NameTest == <<116, 101, 115, 116>>
Name16 == [i \in 1..BlockSize |-> 64 + i]
Name17 == Append(Name16, 33)

Names == {NameTest, Name16, Name17}

\* seeds of 16 zero bytes, 24 and 32 bytes (AES-192, AES-256), 15 and 0 bytes
Seeds == {Zeros(16), [i \in 1..24 |-> i], [i \in 1..32 |-> 2 * i], Zeros(15), <<>>}

Sizes == 1..MaxSize

\* the weight bytes of one draw: the small ones and the largest two values
Weights == (0..MaxLowByte) \cup {ByteRange - 2, ByteRange - 1}

(***************************************************************************)
(* State.                                                                  *)
(*   Name, Seed        the exported fields of the RandomSource             *)
(*   encodingCache     map[[16]byte]encoding.Shuffle, as a function        *)
(*   matrixCache       map[[16]byte]matrix.Matrix, as a function           *)
(*   call              the Dirichlet / Monotone call in progress: its      *)
(*                     arguments and its locals out and candSum            *)
(*   last              the latest call: its arguments, how it ended, what  *)
(*                     it returned, how many times it called rs.Stream and *)
(*                     whether it was served from a cache                  *)
(*   callers           the goroutines that share the generator without a   *)
(*                     lock: where each one is in Shuffle or Matrix        *)
(*   copy              a second RandomSource value made by assignment      *)
(*                     (b := a): its own Name and Seed, the same two maps  *)
(***************************************************************************)
EmptyMap == [k \in {} |-> <<>>]

\* an assignment of a new one-entry map instead of an insertion
PutAlone(m, key, v) == [k \in {key} |-> v]

Put(m, key, v) == [k \in DOMAIN m \cup {key} |-> IF k = key THEN v ELSE m[k]]

Idle == [pc |-> "idle", op |-> "none", label |-> <<>>, length |-> 0, sum |-> 0,
         out |-> <<>>, candSum |-> 0, attempts |-> 0]

Call(op, label, size, length, sum, outcome, result, streams, hit) ==
    [op |-> op, label |-> label, size |-> size, length |-> length, sum |-> sum,
     outcome |-> outcome, result |-> result, streams |-> streams, hit |-> hit]

\* NewRandomSource(name, seed): the fields as given, two empty maps
NewRandomSource(name, seed) ==
    /\ Name = name
    /\ Seed = seed
    /\ encodingCache = EmptyMap
    /\ matrixCache = EmptyMap

\* the goroutines that may share the generator
Callers == {1, 2}

\* a goroutine outside Shuffle and Matrix
Outside == [pc |-> "idle", op |-> "none", label |-> <<>>, size |-> 0,
            outcome |-> "ok", result |-> <<>>, streams |-> 0,
            miss |-> FALSE, value |-> <<>>, wrote |-> FALSE, raced |-> FALSE]

\* no second RandomSource value has been made
NoCopy == [made |-> FALSE, Name |-> <<>>, Seed |-> <<>>]

\* the state after rs := NewRandomSource(name, seed)
Start(name, seed) ==
    /\ NewRandomSource(name, seed)
    /\ call = Idle
    /\ last = Call("NewRandomSource", <<>>, 0, 0, 0, "ok", <<>>, 0, FALSE)
    /\ callers = [t \in Callers |-> Outside]
    /\ copy = NoCopy

Init == \E name \in Names, seed \in Seeds : Start(name, seed)

\* the generator of the example of the documentation: "test", 16 zero bytes
InitExample == Start(NameTest, Zeros(BlockSize))

(***************************************************************************)
(* Stream, Shuffle and Matrix.                                             *)
(***************************************************************************)
\* a caller takes the reader of rs.Stream(label); its first block stands for it
Stream(label) ==
    /\ call.pc = "idle"
    /\ last' = IF StreamOutcome(Name, Seed, label) = "ok"
               THEN Call("Stream", label, 0, 0, 0, "ok",
                         StreamRead(Name, Seed, label, 0, BlockSize), 1, FALSE)
               ELSE Call("Stream", label, 0, 0, 0,
                         StreamOutcome(Name, Seed, label), <<>>, 1, FALSE)
    /\ UNCHANGED <<callers, copy, Name, Seed, encodingCache, matrixCache, call>>

\* a Shuffle that derives and stores on every call, also when the key is cached
ShuffleAlwaysDerive(label) ==
    /\ call.pc = "idle"
    /\ IF StreamOutcome(Name, Seed, label) = "ok"
       THEN /\ encodingCache' = Put(encodingCache, CacheKey(label),
                                    GenerateShuffle(Name, Seed, label))
            /\ last' = Call("Shuffle", label, 0, 0, 0, "ok",
                            encodingCache'[CacheKey(label)], 1, FALSE)
       ELSE /\ last' = Call("Shuffle", label, 0, 0, 0,
                            StreamOutcome(Name, Seed, label), <<>>, 1, FALSE)
            /\ UNCHANGED encodingCache
    /\ UNCHANGED <<callers, copy, Name, Seed, matrixCache, call>>

\* the label with its last byte changed, as a tag of the operation would do
Tagged(label) == [label EXCEPT ![Len(label)] = (label[Len(label)] + 1) % ByteRange]

\* a Shuffle that derives from a stream of its own, apart from Matrix and Dirichlet
ShuffleSeparated(label) ==
    /\ call.pc = "idle"
    /\ LET key == CacheKey(label)
       IN  IF key \in DOMAIN encodingCache
           THEN /\ last' = Call("Shuffle", label, 0, 0, 0, "ok",
                                encodingCache[key], 0, TRUE)
                /\ UNCHANGED encodingCache
           ELSE IF StreamOutcome(Name, Seed, label) = "ok"
           THEN /\ encodingCache' =
                       Put(encodingCache, key,
                           GenerateShuffle(Name, Seed, Tagged(label)))
                /\ last' = Call("Shuffle", label, 0, 0, 0, "ok",
                                encodingCache'[key], 1, FALSE)
           ELSE /\ last' = Call("Shuffle", label, 0, 0, 0,
                                StreamOutcome(Name, Seed, label), <<>>, 1, FALSE)
                /\ UNCHANGED encodingCache
    /\ UNCHANGED <<callers, copy, Name, Seed, matrixCache, call>>

Shuffle(label) ==
    /\ call.pc = "idle"
    /\ LET key == CacheKey(label)
       IN  IF key \in DOMAIN encodingCache
           THEN /\ last' = Call("Shuffle", label, 0, 0, 0, "ok",
                                encodingCache[key], 0, TRUE)
                /\ UNCHANGED encodingCache
           ELSE IF StreamOutcome(Name, Seed, label) = "ok"
           THEN /\ encodingCache' =
                       Put(encodingCache, key, GenerateShuffle(Name, Seed, label))
                /\ last' = Call("Shuffle", label, 0, 0, 0, "ok",
                                encodingCache'[key], 1, FALSE)
           ELSE /\ last' = Call("Shuffle", label, 0, 0, 0,
                                StreamOutcome(Name, Seed, label), <<>>, 1, FALSE)
                /\ UNCHANGED encodingCache
    /\ UNCHANGED <<callers, copy, Name, Seed, matrixCache, call>>

\* Matrix with gen the outcome of matrix.GenerateRandom on the stream of the label
MatrixWith(label, size, gen) ==
    /\ call.pc = "idle"
    /\ LET key == CacheKey(label)
       IN  IF key \in DOMAIN matrixCache
           THEN /\ last' = Call("Matrix", label, size, 0, 0, "ok",
                                matrixCache[key], 0, TRUE)
                /\ UNCHANGED <<matrixCache, call>>
           ELSE IF StreamOutcome(Name, Seed, label) # "ok"
           THEN /\ last' = Call("Matrix", label, size, 0, 0,
                                StreamOutcome(Name, Seed, label), <<>>, 1, FALSE)
                /\ UNCHANGED <<matrixCache, call>>
           ELSE IF gen.done
           THEN /\ matrixCache' = Put(matrixCache, key, gen.m)
                /\ last' = Call("Matrix", label, size, 0, 0, "ok",
                                matrixCache'[key], 1, FALSE)
                /\ UNCHANGED call
           ELSE /\ last' = Call("Matrix", label, size, 0, 0, "running", <<>>, 1, FALSE)
                /\ call' = [Idle EXCEPT !.pc = "sampling", !.op = "Matrix"]
                /\ UNCHANGED matrixCache
    /\ UNCHANGED <<callers, copy, Name, Seed, encodingCache>>

\* a Matrix that generates for one dimension more than requested
MatrixOffByOne(label, size) ==
    MatrixWith(label, size, GenerateRandom(Name, Seed, label, size + 1))

\* a Matrix that generates again when the cached matrix has another dimension
MatrixPerSize(label, size) ==
    IF /\ CacheKey(label) \in DOMAIN matrixCache
       /\ Dim(matrixCache[CacheKey(label)]) # size
       /\ GenerateRandom(Name, Seed, label, size).done
    THEN /\ call.pc = "idle"
         /\ matrixCache' = Put(matrixCache, CacheKey(label),
                                GenerateRandom(Name, Seed, label, size).m)
         /\ last' = Call("Matrix", label, size, 0, 0, "ok",
                         matrixCache'[CacheKey(label)], 1, FALSE)
         /\ UNCHANGED <<callers, copy, Name, Seed, encodingCache, call>>
    ELSE MatrixWith(label, size, GenerateRandom(Name, Seed, label, size))

Matrix(label, size) ==
    MatrixWith(label, size, GenerateRandom(Name, Seed, label, size))

(***************************************************************************)
(* Dirichlet and Monotone.                                                 *)
(***************************************************************************)
\* lines 101-107: the precondition, out := make([]int, length), s := rs.Stream(label)
Enter(op, label, length, sum) ==
    /\ call.pc = "idle"
    /\ IF length = 0 /\ sum # 0
       THEN /\ last' = Call(op, label, 0, length, sum,
                            "panic: Dirichlet: zero variables, non-zero sum", <<>>, 0, FALSE)
            /\ UNCHANGED call
       ELSE IF StreamOutcome(Name, Seed, label) # "ok"
       THEN /\ last' = Call(op, label, 0, length, sum,
                            StreamOutcome(Name, Seed, label), <<>>, 1, FALSE)
            /\ UNCHANGED call
       ELSE /\ last' = Call(op, label, 0, length, sum, "running", <<>>, 1, FALSE)
            /\ call' = [pc |-> "loop", op |-> op, label |-> label, length |-> length,
                        sum |-> sum, out |-> Zeros(length),
                        candSum |-> 0, attempts |-> 0]
    /\ UNCHANGED <<callers, copy, Name, Seed, encodingCache, matrixCache>>

Dirichlet(label, length, sum) == Enter("Dirichlet", label, length, sum)

\* out := rs.Dirichlet(label, length, max)
Monotone(label, length, max) == Enter("Monotone", label, length, max)

\* lines 122-131: one weight scaled by sum / candSum, rounded on the remainder
Scale(w, sum, candSum) ==
    LET t == w * sum
        r == t % candSum
        q == t \div candSum
    IN  IF r >= candSum \div 2 THEN q + 1 ELSE q

\* the candidate that guess() leaves in out for the weights buff
Candidate(buff, sum) == [pos \in 1..Len(buff) |-> Scale(buff[pos], sum, SumSeq(buff))]

\* one turn of the loop of lines 135-142 with the bytes buff read from s
guess(buff) ==
    /\ call.pc = "loop"
    /\ call.candSum # call.sum
    /\ call.attempts < MaxAttempts
    /\ IF SumSeq(buff) = 0
       THEN /\ last' = [last EXCEPT !.outcome = "panic: integer divide by zero"]
            /\ call' = Idle
       ELSE /\ call' = [call EXCEPT !.out = Candidate(buff, call.sum),
                                    !.candSum = SumSeq(Candidate(buff, call.sum)),
                                    !.attempts = call.attempts + 1]
            /\ UNCHANGED last
    /\ UNCHANGED <<callers, copy, Name, Seed, encodingCache, matrixCache>>

\* the bytes come from a stream made anew in every turn, read from its start
guessStreamAnew == guess(StreamRead(Name, Seed, call.label, 0, call.length))

\* the bytes come from the keystream of the label
guessStream ==
    guess(StreamRead(Name, Seed, call.label, call.attempts * call.length, call.length))

\* the bytes are any weights
guessAny == \E buff \in [1..call.length -> Weights] : guess(buff)

\* sums of neighbours: every entry plus the entry before it as it was drawn
PrefixSumOfCopy(out) ==
    [i \in 1..Len(out) |-> IF i = 1 THEN out[1] ELSE out[i - 1] + out[i]]

\* for i := 1; i < length; i++ { out[i] += out[i-1] }
RECURSIVE PrefixSum(_)
PrefixSum(out) ==
    IF Len(out) <= 1 THEN out
    ELSE LET front == PrefixSum(SubSeq(out, 1, Len(out) - 1))
         IN  Append(front, front[Len(front)] + out[Len(out)])

\* a loop "for candSum < sum": it also ends when the candidate sums to more
ReturnAtLeast ==
    /\ call.pc = "loop"
    /\ call.candSum >= call.sum
    /\ last' = [last EXCEPT !.outcome = "ok",
                            !.result = IF call.op = "Monotone"
                                       THEN PrefixSum(call.out) ELSE call.out]
    /\ call' = Idle
    /\ UNCHANGED <<callers, copy, Name, Seed, encodingCache, matrixCache>>

\* the loop ends with candSum = sum: Dirichlet returns out, Monotone its prefix sums
Return ==
    /\ call.pc = "loop"
    /\ call.candSum = call.sum
    /\ last' = [last EXCEPT !.outcome = "ok",
                            !.result = IF call.op = "Monotone"
                                       THEN PrefixSum(call.out) ELSE call.out]
    /\ call' = Idle
    /\ UNCHANGED <<callers, copy, Name, Seed, encodingCache, matrixCache>>

(***************************************************************************)
(* Shuffle and Matrix called by two goroutines on one generator, without a *)
(* lock.  The statements of lines 74-81 and 89-96 are steps of their own:  *)
(* the lookup, the derivation, the map assignment and the lookup of the    *)
(* return statement.  A map assignment has a beginning and an end; a map   *)
(* access that falls into another goroutine's assignment to the same map   *)
(* is a data race: the runtime may stop the program with a fatal error or  *)
(* may not notice.                                                         *)
(***************************************************************************)
\* the map an operation works on
CacheOf(op) == IF op = "Shuffle" THEN encodingCache ELSE matrixCache

\* no goroutine has panicked and the runtime has not stopped the program
Alive == \A t \in Callers : callers[t].outcome \in {"ok", "running"}

\* another goroutine is inside an assignment to the map of op
Writing(t, op) ==
    \E u \in Callers \ {t} : callers[u].pc = "writing" /\ callers[u].op = op

\* the runtime detects the race and stops the program
Fatal(t, msg) ==
    /\ callers' = [callers EXCEPT ![t].pc = "fatal", ![t].outcome = msg]
    /\ UNCHANGED <<encodingCache, matrixCache>>

\* lines 71-77 and 86-92: cached, ok := rs.cache[key]; if ok { return cached }
Lookup(t, op, label, size) ==
    /\ Alive
    /\ callers[t].pc = "idle"
    /\ \/ /\ callers' = [callers EXCEPT ![t] =
                 IF CacheKey(label) \in DOMAIN CacheOf(op)
                 THEN [Outside EXCEPT !.op = op, !.label = label, !.size = size,
                                      !.result = CacheOf(op)[CacheKey(label)]]
                 ELSE [Outside EXCEPT !.pc = "derive", !.op = op, !.label = label,
                                      !.size = size, !.outcome = "running",
                                      !.miss = TRUE]]
          /\ UNCHANGED <<encodingCache, matrixCache>>
       \/ /\ Writing(t, op)
          /\ Fatal(t, "fatal error: concurrent map read and map write")
    /\ UNCHANGED <<copy, Name, Seed, call, last>>

\* lines 79 and 94: the right-hand side, GenerateShuffle or GenerateRandom on
\* rs.Stream(label)
Derive(t) ==
    /\ Alive
    /\ callers[t].pc = "derive"
    /\ LET c == callers[t]
           gen == GenerateRandom(Name, Seed, c.label, c.size)
       IN  IF StreamOutcome(Name, Seed, c.label) # "ok"
           THEN callers' = [callers EXCEPT
                               ![t].pc = "panic", ![t].streams = 1,
                               ![t].outcome = StreamOutcome(Name, Seed, c.label)]
           ELSE /\ c.op = "Matrix" => gen.done
                /\ callers' = [callers EXCEPT
                       ![t].pc = "assign", ![t].streams = 1,
                       ![t].value = IF c.op = "Shuffle"
                                    THEN GenerateShuffle(Name, Seed, c.label)
                                    ELSE gen.m]
    /\ UNCHANGED <<copy, Name, Seed, encodingCache, matrixCache, call, last>>

\* lines 79 and 94: the assignment rs.cache[key] = ... begins
BeginWrite(t) ==
    /\ Alive
    /\ callers[t].pc = "assign"
    /\ \/ /\ callers' = [callers EXCEPT ![t].pc = "writing",
                                        ![t].raced = Writing(t, callers[t].op)]
          /\ UNCHANGED <<encodingCache, matrixCache>>
       \/ /\ Writing(t, callers[t].op)
          /\ Fatal(t, "fatal error: concurrent map writes")
    /\ UNCHANGED <<copy, Name, Seed, call, last>>

\* an assignment that keeps the entry another goroutine stored in the meantime
EndWriteIfAbsent(t) ==
    /\ Alive
    /\ callers[t].pc = "writing"
    /\ LET c == callers[t]
           key == CacheKey(c.label)
       IN  /\ callers' = [callers EXCEPT ![t].pc = "reread", ![t].wrote = TRUE]
           /\ IF c.op = "Shuffle"
              THEN /\ encodingCache' = IF key \in DOMAIN encodingCache
                                       THEN encodingCache
                                       ELSE Put(encodingCache, key, c.value)
                   /\ UNCHANGED matrixCache
              ELSE /\ matrixCache' = IF key \in DOMAIN matrixCache
                                     THEN matrixCache
                                     ELSE Put(matrixCache, key, c.value)
                   /\ UNCHANGED encodingCache
    /\ UNCHANGED <<copy, Name, Seed, call, last>>

\* lines 79 and 94: the assignment ends, the entry of the key is the derived value
EndWrite(t) ==
    /\ Alive
    /\ callers[t].pc = "writing"
    /\ LET c == callers[t]
           key == CacheKey(c.label)
       IN  \/ /\ callers' = [callers EXCEPT ![t].pc = "reread", ![t].wrote = TRUE]
              /\ IF c.op = "Shuffle"
                 THEN /\ encodingCache' = Put(encodingCache, key, c.value)
                      /\ UNCHANGED matrixCache
                 ELSE /\ matrixCache' = Put(matrixCache, key, c.value)
                      /\ UNCHANGED encodingCache
           \/ /\ Writing(t, c.op)
              /\ Fatal(t, "fatal error: concurrent map writes")
    /\ UNCHANGED <<copy, Name, Seed, call, last>>

\* lines 80 and 95: return rs.cache[key]
Reread(t) ==
    /\ Alive
    /\ callers[t].pc = "reread"
    /\ LET c == callers[t]
       IN  \/ /\ callers' = [callers EXCEPT
                     ![t].pc = "idle", ![t].outcome = "ok",
                     ![t].result = CacheOf(c.op)[CacheKey(c.label)]]
              /\ UNCHANGED <<encodingCache, matrixCache>>
           \/ /\ Writing(t, c.op)
              /\ Fatal(t, "fatal error: concurrent map read and map write")
    /\ UNCHANGED <<copy, Name, Seed, call, last>>

(***************************************************************************)
(* RandomSource values.  NewRandomSource returns the struct by value and   *)
(* Name and Seed are exported: a caller can assign to them, and can copy   *)
(* the struct (b := a).  The copy has fields Name and Seed of its own; its *)
(* two map fields refer to the maps of the original.                       *)
(***************************************************************************)
\* rs.Name = name
AssignName(name) ==
    /\ call.pc = "idle"
    /\ Name' = name
    /\ last' = Call("AssignName", <<>>, 0, 0, 0, "ok", <<>>, 0, FALSE)
    /\ UNCHANGED <<callers, copy, Seed, encodingCache, matrixCache, call>>

\* rs.Seed = seed
AssignSeed(seed) ==
    /\ call.pc = "idle"
    /\ Seed' = seed
    /\ last' = Call("AssignSeed", <<>>, 0, 0, 0, "ok", <<>>, 0, FALSE)
    /\ UNCHANGED <<callers, copy, Name, encodingCache, matrixCache, call>>

\* b := rs
CopyValue ==
    /\ call.pc = "idle"
    /\ ~copy.made
    /\ copy' = [made |-> TRUE, Name |-> Name, Seed |-> Seed]
    /\ last' = Call("CopyValue", <<>>, 0, 0, 0, "ok", <<>>, 0, FALSE)
    /\ UNCHANGED <<callers, Name, Seed, encodingCache, matrixCache, call>>

\* b.Name = name
AssignNameOfCopy(name) ==
    /\ call.pc = "idle"
    /\ copy.made
    /\ copy' = [copy EXCEPT !.Name = name]
    /\ last' = Call("AssignNameOfCopy", <<>>, 0, 0, 0, "ok", <<>>, 0, FALSE)
    /\ UNCHANGED <<callers, Name, Seed, encodingCache, matrixCache, call>>

\* b.Shuffle(label): the fields Name and Seed of b, the map of the original
ShuffleOfCopy(label) ==
    /\ call.pc = "idle"
    /\ copy.made
    /\ LET key == CacheKey(label)
       IN  IF key \in DOMAIN encodingCache
           THEN /\ last' = Call("ShuffleOfCopy", label, 0, 0, 0, "ok",
                                encodingCache[key], 0, TRUE)
                /\ UNCHANGED encodingCache
           ELSE IF StreamOutcome(copy.Name, copy.Seed, label) = "ok"
           THEN /\ encodingCache' =
                       Put(encodingCache, key,
                           GenerateShuffle(copy.Name, copy.Seed, label))
                /\ last' = Call("ShuffleOfCopy", label, 0, 0, 0, "ok",
                                encodingCache'[key], 1, FALSE)
           ELSE /\ last' = Call("ShuffleOfCopy", label, 0, 0, 0,
                                StreamOutcome(copy.Name, copy.Seed, label),
                                <<>>, 1, FALSE)
                /\ UNCHANGED encodingCache
    /\ UNCHANGED <<callers, copy, Name, Seed, matrixCache, call>>

(***************************************************************************)
(* Specifications.                                                         *)
(***************************************************************************)
Lengths == 0..MaxLen
Sums == 0..MaxSum

\* over the AES keystream the calls take the extreme lengths and sums
EdgeLengths == {0, MaxLen}
EdgeSums == {0, MaxSum}

Next ==
    \/ \E label \in Labels : Stream(label)
    \/ \E label \in Labels : Shuffle(label)
    \/ \E label \in Labels, size \in Sizes : Matrix(label, size)
    \/ \E label \in Labels, length \in EdgeLengths, sum \in EdgeSums :
          Dirichlet(label, length, sum)
    \/ \E label \in Labels, length \in EdgeLengths, max \in EdgeSums :
          Monotone(label, length, max)
    \/ guessStream
    \/ Return

\* one generator used sequentially, the bytes of every stream from AES-CTR
Spec == Init /\ [][Next]_vars

NextDirichlet ==
    \/ \E label \in Labels, length \in Lengths, sum \in Sums : Dirichlet(label, length, sum)
    \/ \E label \in Labels, length \in Lengths, max \in Sums : Monotone(label, length, max)
    \/ guessAny
    \/ Return

\* the samplers alone, the bytes of the stream being any weights
SpecDirichlet == Init /\ [][NextDirichlet]_vars

\* the labels of the concurrent calls: two of one key, one of another
SharedLabels == {Label16, Label17a, LabelM1Pad}

NextConcurrent ==
    \E t \in Callers :
        \/ \E label \in SharedLabels : Lookup(t, "Shuffle", label, 0)
        \/ \E label \in SharedLabels, size \in Sizes : Lookup(t, "Matrix", label, size)
        \/ Derive(t)
        \/ BeginWrite(t)
        \/ EndWrite(t)
        \/ Reread(t)

\* two goroutines calling Shuffle and Matrix on the generator of the example
SpecConcurrent == InitExample /\ [][NextConcurrent]_vars

\* the labels of the calls on generator values: two keys
ValueLabels == {Label16, LabelM1Pad}

\* the names and seeds assigned to the fields: well-formed ones
ValueNames == {NameTest, Name16}
ValueSeeds == {Zeros(BlockSize), [i \in 1..BlockSize |-> i]}

NextValues ==
    \/ \E label \in ValueLabels : Shuffle(label)
    \/ \E size \in Sizes : Matrix(Label16, size)
    \/ \E name \in ValueNames : AssignName(name)
    \/ \E seed \in ValueSeeds : AssignSeed(seed)
    \/ CopyValue
    \/ \E name \in ValueNames : AssignNameOfCopy(name)
    \/ \E label \in ValueLabels : ShuffleOfCopy(label)

\* the generator of the example, its fields reassigned, and a copy of it
SpecValues == InitExample /\ [][NextValues]_vars

(***************************************************************************)
(* Properties.                                                             *)
(***************************************************************************)
\* the latest call has ended (returned or panicked)
Ended == last.outcome # "running"

\* the generator was built as the interface asks: a 16-byte seed, and a name
\* that fits the block
ValidSource == Len(Seed) = BlockSize /\ Len(Name) <= BlockSize

\* C1: a sequence returned by Dirichlet(label, length, targetSum) with length > 0
\* has exactly length entries, none negative, and they sum to targetSum,
\* whatever bytes the stream delivered.
C1_SumExact ==
    (last.op = "Dirichlet" /\ last.outcome = "ok" /\ last.length > 0)
        => /\ Len(last.result) = last.length
           /\ \A i \in 1..Len(last.result) : last.result[i] >= 0
           /\ SumSeq(last.result) = last.sum

\* a returned sequence with a non-zero target shared by several entries
C1_Witness ==
    /\ last.op = "Dirichlet" /\ last.outcome = "ok"
    /\ last.length > 1 /\ last.sum > 1
    /\ Cardinality({i \in 1..Len(last.result) : last.result[i] > 0}) > 1

\* C2: Dirichlet with length 0 returns the empty sequence when targetSum is 0,
\* and panics on its precondition, without calling rs.Stream, when targetSum
\* is not 0 (on a generator with a 16-byte seed, for every label).
C2_ZeroLength ==
    (ValidSource /\ last.op = "Dirichlet" /\ last.length = 0 /\ Ended)
        => IF last.sum = 0
           THEN last.outcome = "ok" /\ last.result = <<>>
           ELSE /\ last.outcome = "panic: Dirichlet: zero variables, non-zero sum"
                /\ last.streams = 0

\* C3: a sequence returned by Monotone(label, length, max) with length > 0 is
\* non-decreasing and its last element is max.
C3_Monotone ==
    (last.op = "Monotone" /\ last.outcome = "ok" /\ last.length > 0)
        => /\ Len(last.result) = last.length
           /\ \A i \in 1..(Len(last.result) - 1) : last.result[i] <= last.result[i + 1]
           /\ last.result[Len(last.result)] = last.sum

\* a returned monotone sequence that rises in at least two places
C3_Witness ==
    /\ last.op = "Monotone" /\ last.outcome = "ok" /\ last.length > 2
    /\ \A i \in 1..(Len(last.result) - 1) : last.result[i] < last.result[i + 1]
    /\ last.result[1] > 0

\* C4: in every step the entries of both caches stay as they are (none is
\* overwritten or removed), and a Shuffle (Matrix) call whose key is present
\* returns the stored value and calls rs.Stream zero times; so a call that
\* derives finds its key absent, and a key is derived at most once per cache.
C4_CacheStable ==
    [][ /\ \A k \in DOMAIN encodingCache :
              k \in DOMAIN encodingCache' /\ encodingCache'[k] = encodingCache[k]
        /\ \A k \in DOMAIN matrixCache :
              k \in DOMAIN matrixCache' /\ matrixCache'[k] = matrixCache[k]
        /\ (last'.op = "Shuffle" /\ CacheKey(last'.label) \in DOMAIN encodingCache)
              => /\ last'.outcome = "ok"
                 /\ last'.result = encodingCache[CacheKey(last'.label)]
                 /\ last'.streams = 0
        /\ (last'.op = "Matrix" /\ CacheKey(last'.label) \in DOMAIN matrixCache)
              => /\ last'.outcome = "ok"
                 /\ last'.result = matrixCache[CacheKey(last'.label)]
                 /\ last'.streams = 0
      ]_vars

\* a Shuffle served from the cache through a label longer than its key, while
\* the matrix cache holds an entry as well
C4_Witness ==
    /\ last.op = "Shuffle" /\ last.hit /\ Len(last.label) > BlockSize
    /\ matrixCache # EmptyMap

\* what a call leaves on a generator fresh from NewRandomSource(Name, Seed)
RECURSIVE FreshLoop(_, _, _, _)
FreshLoop(label, length, sum, a) ==
    IF a >= MaxAttempts THEN [outcome |-> "running", result |-> <<>>]
    ELSE LET buff == StreamRead(Name, Seed, label, a * length, length)
         IN  IF SumSeq(buff) = 0
             THEN [outcome |-> "panic: integer divide by zero", result |-> <<>>]
             ELSE IF SumSeq(Candidate(buff, sum)) = sum
             THEN [outcome |-> "ok", result |-> Candidate(buff, sum)]
             ELSE FreshLoop(label, length, sum, a + 1)

FreshSample(label, length, sum) ==
    IF length = 0 /\ sum # 0
    THEN [outcome |-> "panic: Dirichlet: zero variables, non-zero sum", result |-> <<>>]
    ELSE IF StreamOutcome(Name, Seed, label) # "ok"
    THEN [outcome |-> StreamOutcome(Name, Seed, label), result |-> <<>>]
    ELSE IF sum = 0 THEN [outcome |-> "ok", result |-> Zeros(length)]
    ELSE FreshLoop(label, length, sum, 0)

FreshCall(op, label, size, length, sum) ==
    IF op \in {"Dirichlet", "Monotone"}
    THEN LET d == FreshSample(label, length, sum)
         IN  IF op = "Monotone" THEN [d EXCEPT !.result = PrefixSum(d.result)] ELSE d
    ELSE IF StreamOutcome(Name, Seed, label) # "ok"
    THEN [outcome |-> StreamOutcome(Name, Seed, label), result |-> <<>>]
    ELSE IF op = "Shuffle"
    THEN [outcome |-> "ok", result |-> GenerateShuffle(Name, Seed, label)]
    ELSE IF op = "Matrix"
    THEN IF GenerateRandom(Name, Seed, label, size).done
         THEN [outcome |-> "ok", result |-> GenerateRandom(Name, Seed, label, size).m]
         ELSE [outcome |-> "running", result |-> <<>>]
    ELSE [outcome |-> "ok", result |-> StreamRead(Name, Seed, label, 0, BlockSize)]

\* C5: whatever calls came before, a call ends as the same call ends on a fresh
\* generator with the same seed and name: same outcome, same result.
C5_Determinism ==
    (last.op # "NewRandomSource" /\ Ended)
        => /\ last.outcome = FreshCall(last.op, last.label, last.size,
                                       last.length, last.sum).outcome
           /\ last.result = FreshCall(last.op, last.label, last.size,
                                      last.length, last.sum).result

\* a square bit matrix of its own dimension that is invertible over GF(2)
IsInvertibleMatrix(m) ==
    /\ Dim(m) > 0
    /\ \A i \in 1..Dim(m) : m[i] \in 0..(Pow2(Dim(m)) - 1)
    /\ Invertible(m)

\* C6 as stated: every matrix returned by Matrix(label, size) is invertible
\* and has the dimension size requested in that call.
C6_RequestedDimension ==
    (last.op = "Matrix" /\ last.outcome = "ok")
        => IsInvertibleMatrix(last.result) /\ Dim(last.result) = last.size

\* C6 as amended: every matrix returned by Matrix(label, size) is invertible
\* for its own dimension and is the entry the cache holds for the key of the
\* label; it has the dimension size requested in that call when the call
\* found the key absent and generated the matrix itself.
C6_GeneratedDimension ==
    /\ \A k \in DOMAIN matrixCache : IsInvertibleMatrix(matrixCache[k])
    /\ (last.op = "Matrix" /\ last.outcome = "ok")
          => /\ CacheKey(last.label) \in DOMAIN matrixCache
             /\ last.result = matrixCache[CacheKey(last.label)]
             /\ (~last.hit => Dim(last.result) = last.size)

\* a Matrix call that generated a matrix of more than one row
C6_Witness ==
    /\ last.op = "Matrix" /\ last.outcome = "ok" /\ ~last.hit
    /\ last.size > 1 /\ Dim(last.result) = last.size

\* C7: on a generator with a 16-byte seed every Shuffle and Matrix call
\* succeeds and returns the entry of the 16-byte key of its label, so two
\* labels with the same first 16 bytes (zero-padded) get the same value in
\* either order of the calls.
C7_Collision ==
    (ValidSource /\ last.op = "Shuffle" /\ Ended)
        => /\ last.outcome = "ok"
           /\ CacheKey(last.label) \in DOMAIN encodingCache
           /\ last.result = encodingCache[CacheKey(last.label)]

\* C8: on a generator with a 16-byte seed, Stream succeeds for a label of any
\* length and is the stream of the label truncated or zero-padded to 16 bytes.
C8_AnyLabelLength ==
    (ValidSource /\ last.op = "Stream")
        => /\ last.outcome = "ok"
           /\ last.result = StreamRead(Name, Seed, CacheKey(last.label), 0, BlockSize)

\* C9: with a seed that is not 16 bytes long every call that reaches the
\* cipher fails, nothing is returned and both caches stay empty.
C9_InvalidKeyLength ==
    (Len(Seed) # BlockSize)
        => /\ encodingCache = EmptyMap /\ matrixCache = EmptyMap
           /\ (last.streams > 0 /\ Ended) => last.outcome # "ok"

\* C10: with a 16-byte seed and a 16-byte label, a name of any length gives no
\* failure, and the stream is the one of the first 16 bytes of the name.
C10_NamePrefix ==
    (Len(Seed) = BlockSize /\ Len(last.label) = BlockSize /\ last.op = "Stream")
        => /\ last.outcome = "ok"
           /\ last.result = StreamRead(SubSeq(Name, 1, Min(Len(Name), BlockSize)),
                                       Seed, last.label, 0, BlockSize)

\* C11: a Dirichlet call with length > 0 that got its stream has no failure
\* outcome: whatever weights are drawn, it ends by returning a sequence that
\* sums to targetSum.
C11_NoFailure ==
    (/\ last.op = "Dirichlet" /\ last.length > 0 /\ Ended
     /\ StreamOutcome(Name, Seed, last.label) = "ok")
        => last.outcome = "ok" /\ SumSeq(last.result) = last.sum

C13_Terminates ==
    /\ (call.pc = "loop" /\ call.length > 0)
          => \E buff \in [1..call.length -> Weights] :
                /\ SumSeq(buff) > 0
                /\ SumSeq(Candidate(buff, call.sum)) = call.sum
    /\ (/\ call.pc = "idle" /\ last.op \in {"Dirichlet", "Monotone"}
        /\ last.streams = 1 /\ StreamOutcome(Name, Seed, last.label) = "ok")
          => last.outcome = "ok"

\* the quotient t / c rounded half up: the floor, one more exactly when the
\* fractional part (t mod c) / c is at least 1/2
RoundHalfUp(t, c) == (t \div c) + (IF 2 * (t % c) >= c THEN 1 ELSE 0)

\* C14: after a turn of the loop the candidate in out comes from the weights
\* of the turn by rounding half up: there are weights, their sum candSum not
\* zero, of which every entry is w * targetSum / candSum rounded half up.
C14_RoundHalfUp ==
    (call.pc = "loop" /\ call.attempts > 0)
        => \E buff \in [1..call.length -> Weights] :
              /\ SumSeq(buff) > 0
              /\ \A pos \in 1..call.length :
                    call.out[pos] = RoundHalfUp(buff[pos] * call.sum, SumSeq(buff))

\* the bytes from (from 0) up to before of the one keystream of the call
StreamBytes(label, from, before) ==
    SubSeq(KeyStream(Name, Seed, label, (before + BlockSize - 1) \div BlockSize),
           from + 1, before)

\* C15: the call has one stream; turn k of the loop reads the bytes
\* [k*length, (k+1)*length) of it, out is then the candidate of these bytes in
\* every entry, and what is returned is the candidate of the turn that was
\* accepted (the zeros when there was no turn).
C15_AttemptBytes ==
    [][ /\ (call.pc = "loop" /\ call'.pc = "loop")
              => /\ call'.attempts = call.attempts + 1
                 /\ call'.out = Candidate(StreamBytes(call.label,
                                                       call.attempts * call.length,
                                                       (call.attempts + 1) * call.length),
                                           call.sum)
                 /\ Len(call'.out) = call.length
                 /\ last'.streams = 1
        /\ (call.pc = "loop" /\ call'.pc = "idle" /\ last'.outcome = "ok")
              => /\ last'.streams = 1
                 /\ LET accepted == IF call.attempts = 0 THEN Zeros(call.length)
                                    ELSE Candidate(
                                           StreamBytes(call.label,
                                                       (call.attempts - 1) * call.length,
                                                       call.attempts * call.length),
                                           call.sum)
                    IN  last'.result = IF call.op = "Monotone"
                                       THEN PrefixSum(accepted) ELSE accepted
      ]_vars

\* a candidate accepted in a later turn than the first
C15_Witness ==
    /\ call.pc = "loop" /\ call.attempts > 1 /\ call.candSum = call.sum
    /\ call.length > 1

\* C16: no step changes Name or Seed; a Stream, Dirichlet or Monotone step
\* leaves both caches as they are; a Shuffle step leaves the matrix cache as it
\* is and adds to the permutation cache at most the entry of its key; a Matrix
\* step leaves the permutation cache as it is and adds to the matrix cache at
\* most the entry of its key.
Extends(after, before, key) ==
    /\ DOMAIN before \subseteq DOMAIN after
    /\ DOMAIN after \subseteq DOMAIN before \cup {key}
    /\ \A k \in DOMAIN before : after[k] = before[k]

C16_Frame ==
    [][ /\ Name' = Name /\ Seed' = Seed
        /\ last'.op \in {"Stream", "Dirichlet", "Monotone"}
              => encodingCache' = encodingCache /\ matrixCache' = matrixCache
        /\ last'.op = "Shuffle"
              => /\ matrixCache' = matrixCache
                 /\ Extends(encodingCache', encodingCache, CacheKey(last'.label))
        /\ last'.op = "Matrix"
              => /\ encodingCache' = encodingCache
                 /\ Extends(matrixCache', matrixCache, CacheKey(last'.label))
      ]_vars

\* a Matrix call that added an entry next to another one, both caches filled
C16_Witness ==
    /\ last.op = "Matrix" /\ ~last.hit /\ last.outcome = "ok"
    /\ Cardinality(DOMAIN matrixCache) > 1
    /\ encodingCache # EmptyMap

\* C17: on a shared generator without a lock the lookup and the insert of
\* Shuffle (Matrix) are separate steps: a caller that leaves the lookup to
\* derive has seen its key absent, it derives from rs.Stream for its own size,
\* its assignment stores that value whatever the map holds by then (also over
\* an entry another caller stored in the meantime), and it returns what the
\* map holds when its return statement reads it.
C17_CheckThenInsert ==
    [][ \A t \in Callers :
          LET c == callers[t]
              d == callers'[t]
              key == CacheKey(c.label)
          IN  /\ (c.pc = "idle" /\ d.pc = "derive")
                    => CacheKey(d.label) \notin DOMAIN CacheOf(d.op) /\ d.miss
              /\ (c.pc = "derive" /\ d.pc = "assign")
                    => /\ d.streams = 1
                       /\ d.value = IF c.op = "Shuffle"
                                    THEN GenerateShuffle(Name, Seed, c.label)
                                    ELSE GenerateRandom(Name, Seed, c.label, c.size).m
              /\ (c.pc = "writing" /\ d.pc = "reread")
                    => IF c.op = "Shuffle"
                       THEN encodingCache' = Put(encodingCache, key, c.value)
                       ELSE matrixCache' = Put(matrixCache, key, c.value)
              /\ (c.pc = "reread" /\ d.pc = "idle")
                    => d.result = CacheOf(c.op)[key]
      ]_vars

\* both callers of Matrix with one label and different sizes saw a miss, both
\* derived and both wrote, one of them while the other was inside its own
\* assignment, and they returned different matrices
C17_Witness ==
    /\ \A t \in Callers :
          /\ callers[t].pc = "idle" /\ callers[t].op = "Matrix"
          /\ callers[t].outcome = "ok"
          /\ callers[t].miss /\ callers[t].wrote /\ callers[t].streams = 1
          /\ Dim(callers[t].result) = callers[t].size
    /\ callers[1].label = callers[2].label
    /\ callers[1].size # callers[2].size
    /\ callers[1].result # callers[2].result
    /\ \E t \in Callers : callers[t].raced

\* every entry of the two maps is what a generator with the fields name and
\* seed derives for the key of the entry
OwnEntries(name, seed) ==
    /\ \A k \in DOMAIN encodingCache :
          encodingCache[k] = GenerateShuffle(name, seed, k)
    /\ \A k \in DOMAIN matrixCache :
          matrixCache[k] = GenerateRandom(name, seed, k, Dim(matrixCache[k])).m

\* C18: every generator value owns its caches: every entry of the maps of the
\* generator is the value derived from its current Name and Seed and the key,
\* also after Name or Seed was reassigned, and the same holds of a copy of
\* the struct with the maps it reaches (so no operation on one value shows in
\* what the other returns).
C18_OwnCaches ==
    /\ OwnEntries(Name, Seed)
    /\ copy.made => OwnEntries(copy.Name, copy.Seed)

\* the first block of the keystream of (Seed, Name, label): bytes 0..15
FirstBlock(label) == KeyStream(Name, Seed, label, 1)

\* the matrix that rejection sampling makes of the bytes from byte 0 on, size
\* bytes for every candidate; the empty sequence when none is invertible
RECURSIVE FirstInvertible(_, _, _)
FirstInvertible(bytes, size, a) ==
    IF (a + 1) * size > Len(bytes) THEN <<>>
    ELSE LET m == [i \in 1..size |-> bytes[a * size + i] % Pow2(size)]
         IN  IF Invertible(m) THEN m ELSE FirstInvertible(bytes, size, a + 1)

\* C19: whatever was called before, a Stream call, a Shuffle call that
\* derives, a Matrix call that derives and the first turn of a Dirichlet or
\* Monotone call all read the one keystream of (Seed, Name, label) from its
\* byte 0: the same bytes for the same label, whatever the operation and its
\* size, length and sum are.
C19_OneKeystream ==
    [][ /\ (last'.op = "Stream" /\ last'.outcome = "ok")
              => last'.result = FirstBlock(last'.label)
        /\ (last'.op = "Shuffle" /\ last'.outcome = "ok" /\ last'.streams = 1)
              => last'.result = FisherYates(FirstBlock(last'.label), 2)
        /\ (last'.op = "Matrix" /\ last'.outcome = "ok" /\ last'.streams = 1)
              => last'.result =
                    FirstInvertible(FirstBlock(last'.label), last'.size, 0)
        /\ (call.pc = "loop" /\ call.attempts = 0 /\ call'.pc = "loop")
              => call'.out = Candidate(SubSeq(FirstBlock(call.label), 1, call.length),
                                       call.sum)
      ]_vars

\* the first turn of a Dirichlet call has read the bytes from which the
\* permutation and the matrix of the same label were made before
C19_Witness ==
    /\ call.pc = "loop" /\ call.attempts = 1 /\ call.length > 1
    /\ call.out = Candidate(SubSeq(FirstBlock(call.label), 1, call.length), call.sum)
    /\ CacheKey(call.label) \in DOMAIN encodingCache
    /\ encodingCache[CacheKey(call.label)] = FisherYates(FirstBlock(call.label), 2)
    /\ CacheKey(call.label) \in DOMAIN matrixCache
    /\ matrixCache[CacheKey(call.label)] =
          FirstInvertible(FirstBlock(call.label), Dim(matrixCache[CacheKey(call.label)]), 0)

====
